---------------------------- MODULE Spec2Model ----------------------------
(***************************************************************************)
(* Login and renewal of the PCF auth backend (path_login.go).              *)
(*                                                                         *)
(* A request is handled in steps, one per read of shared state: the        *)
(* configuration and role reads from storage and the four lookups of the   *)
(* PCF API.  Storage and the PCF directory may change between two steps.   *)
(*                                                                         *)
(* Text is modelled by structure: a formatted message is the tuple of its  *)
(* format and arguments, a signing time is its layout and the instant it   *)
(* denotes, a remote address is its host and its mask suffix.              *)
(***************************************************************************)
EXTENDS Integers, Sequences, FiniteSets

VARIABLES
    config,     \* storage: the configuration entry, or NilConfig
    roles,      \* storage: role name -> role entry, or NilRole
    directory,  \* the PCF API: per kind, GUID asked for -> answer
    token,      \* the credential Vault holds for the client (last one returned)
    procs,      \* the request handlers that run
    pc,         \* per handler: where it is
    kind,       \* per handler: "login" or "renew"
    req,        \* per handler: the request it serves
    loc,        \* per handler: its local variables (config, role, pcfCert)
    trace,      \* per handler: the checks and lookups it evaluated, in order
    out,        \* per handler: what it returned to the caller
    log         \* per handler: what it wrote to the server log

vars == <<config, roles, directory, token, procs, pc, kind, req, loc, trace, out, log>>

Procs == {1, 2}

(***************************************************************************)
(* Values                                                                  *)
(***************************************************************************)
NoErr == <<>>
NilConfig == [nil |-> TRUE]
NilRole == [nil |-> TRUE]
NilCert == [nil |-> TRUE]
NilAuth == [nil |-> TRUE]
NilResp == [nil |-> TRUE]
NilIP == <<>>

\* window of attemptLogin, in seconds
FiveMinutes == 300
ThirtySeconds == 30

(***************************************************************************)
(* Time: a signing_time string is [layout, secs]; layout says which of the *)
(* two accepted layouts it is written in, if any.                          *)
(***************************************************************************)
EmptyTimeString == [layout |-> "empty", secs |-> 0]
ZeroTime == 0

parseTime(signingTime) ==
    IF signingTime.layout = "iso"
    THEN [t |-> signingTime.secs, err |-> NoErr]
    ELSE IF signingTime.layout = "bash"
    THEN [t |-> signingTime.secs, err |-> NoErr]
    ELSE [t |-> ZeroTime, err |-> <<"couldn't parse %s", signingTime>>]

(***************************************************************************)
(* IP addresses and CIDRs                                                  *)
(***************************************************************************)
\* net.ParseIP: the address a host string denotes, NilIP when it denotes none
ParseIP(s) ==
    CASE s = "10.0.0.5" -> <<10, 0, 0, 5>>
      [] s = "10.0.0.6" -> <<10, 0, 0, 6>>
      [] s = "10.0.0.4" -> <<10, 0, 0, 4>>
      [] s = "10.0.0.9" -> <<10, 0, 0, 9>>
      [] OTHER -> NilIP

\* net.IP.String
IPString(ip) ==
    CASE ip = <<10, 0, 0, 5>> -> "10.0.0.5"
      [] ip = <<10, 0, 0, 6>> -> "10.0.0.6"
      [] ip = <<10, 0, 0, 4>> -> "10.0.0.4"
      [] ip = <<10, 0, 0, 9>> -> "10.0.0.9"
      [] OTHER -> "<nil>"

\* net.IP.Equal
IPEqual(a, b) == Len(a) = Len(b) /\ a = b

\* strings.Split(remoteAddr, "/")[0]
SplitHost(remoteAddr) == remoteAddr.host

matchesIPAddress(remoteAddr, certIP) ==
    LET reqIPAddr == ParseIP(SplitHost(remoteAddr))
    IN  IF IPEqual(certIP, reqIPAddr) THEN TRUE ELSE FALSE

IPNumber(ip) == ((ip[1] * 256 + ip[2]) * 256 + ip[3]) * 256 + ip[4]

RECURSIVE Pow2(_)
Pow2(n) == IF n = 0 THEN 1 ELSE 2 * Pow2(n - 1)

MaskBits(mask) ==
    CASE mask = "" -> 32
      [] mask = "32" -> 32
      [] mask = "31" -> 31
      [] mask = "24" -> 24
      [] OTHER -> -1

\* sockaddr: a CIDR [host, mask] contains an address when the address is at
\* least as specific and agrees with it on the CIDR's prefix
CIDRContains(cidr, remoteAddr) ==
    LET bits == MaskBits(cidr.mask)
        rbits == MaskBits(remoteAddr.mask)
        a == ParseIP(cidr.host)
        b == ParseIP(remoteAddr.host)
    IN  /\ bits >= 0 /\ rbits >= bits
        /\ a # NilIP /\ b # NilIP
        /\ IPNumber(a) \div Pow2(32 - bits) = IPNumber(b) \div Pow2(32 - bits)

\* cidrutil.RemoteAddrIsOk
RemoteAddrIsOk(remoteAddr, boundCIDRs) ==
    IF Len(boundCIDRs) = 0 THEN TRUE
    ELSE IF ParseIP(remoteAddr.host) = NilIP \/ MaskBits(remoteAddr.mask) < 0 THEN FALSE
    ELSE \E i \in 1..Len(boundCIDRs) : CIDRContains(boundCIDRs[i], remoteAddr)

(***************************************************************************)
(* Bound constraints                                                       *)
(***************************************************************************)
RECURSIVE meetsBoundConstraintsFrom(_, _, _)
meetsBoundConstraintsFrom(certValue, constraints, i) ==
    IF i > Len(constraints) THEN FALSE
    ELSE IF constraints[i] = certValue THEN TRUE
    ELSE meetsBoundConstraintsFrom(certValue, constraints, i + 1)

\* a comparison that stops at the first constraint
meetsBoundConstraintsFirstOnly(certValue, constraints) ==
    IF Len(constraints) = 0 THEN TRUE
    ELSE constraints[1] = certValue

meetsBoundConstraints(certValue, constraints) ==
    IF Len(constraints) = 0 THEN TRUE
    ELSE meetsBoundConstraintsFrom(certValue, constraints, 1)

(***************************************************************************)
(* Checks run in the order written; the first that fails returns its error *)
(* and ends the function.  A check is [name, ok, err]; the result carries  *)
(* the error (NoErr when all passed) and the names of the checks evaluated.*)
(***************************************************************************)
Check(name, ok, err) == [name |-> name, ok |-> ok, err |-> err]

Names(cs, n) == [i \in 1..n |-> cs[i].name]

RunChecks(cs) ==
    LET failing == {i \in 1..Len(cs) : ~cs[i].ok}
    IN  IF failing = {}
        THEN [err |-> NoErr, trace |-> Names(cs, Len(cs))]
        ELSE LET k == CHOOSE i \in failing : \A j \in failing : i <= j
             IN  [err |-> cs[k].err, trace |-> Names(cs, k)]

(***************************************************************************)
(* Collaborators of the login path                                         *)
(***************************************************************************)
EmptySignature == [key |-> "", secs |-> 0, role |-> ""]

\* The x509 certificate a PEM text holds: who issued it and the identity in
\* its subject and IP SANs.  "pem-1" and "pem-2" are two app instances; the
\* others differ from "pem-1" in the one thing their name says.
Cert(issuer, inst, org, space, app, ip) ==
    [issuer |-> issuer, InstanceID |-> inst, OrgID |-> org, SpaceID |-> space,
     AppID |-> app, IP |-> ip]

X509(pem) ==
    CASE pem = "pem-1" -> Cert("ca1", "i1", "o1", "s1", "a1", <<10, 0, 0, 5>>)
      [] pem = "pem-2" -> Cert("ca1", "i2", "o2", "s2", "a2", <<10, 0, 0, 6>>)
      [] pem = "pem-self" -> Cert("self", "i1", "o1", "s1", "a1", <<10, 0, 0, 5>>)
      [] pem = "pem-noorg" -> Cert("ca1", "i1", "", "s1", "a1", <<10, 0, 0, 5>>)
      [] pem = "pem-i2" -> Cert("ca1", "i2", "o1", "s1", "a1", <<10, 0, 0, 5>>)
      [] pem = "pem-a2" -> Cert("ca1", "i1", "o1", "s1", "a2", <<10, 0, 0, 5>>)
      [] pem = "pem-o2" -> Cert("ca1", "i1", "o2", "s1", "a1", <<10, 0, 0, 5>>)
      [] pem = "pem-s2" -> Cert("ca1", "i1", "o1", "s2", "a1", <<10, 0, 0, 5>>)
      [] pem = "pem-ip6" -> Cert("ca1", "i1", "o1", "s1", "a1", <<10, 0, 0, 6>>)
      [] OTHER -> Cert("", "", "", "", "", NilIP)

\* signatures.Verify: the certificate of the request when its key signed this
\* signing time, role and certificate; an error otherwise.
SignaturesVerify(signature, data) ==
    IF /\ signature.key = data.Certificate
       /\ signature.secs = data.SigningTime
       /\ signature.role = data.Role
    THEN [cert |-> X509(data.Certificate), err |-> NoErr]
    ELSE [cert |-> X509(""), err |-> <<"no matching certificate found for signature">>]

\* Configuration.VerifyOpts: the CA pool, or an error when the CA is no PEM.
VerifyOpts(c) ==
    IF c.ca = "badpem"
    THEN [roots |-> "", err |-> <<"couldn't append CA certificates">>]
    ELSE [roots |-> c.ca, err |-> NoErr]

\* x509.Certificate.Verify
X509Verify(cert, opts) ==
    IF cert.issuer = opts.roots THEN NoErr
    ELSE <<"x509: certificate signed by unknown authority">>

\* models.NewPCFCertificate: all five fields or an error and no certificate.
NewPCFCertificate(instanceID, orgID, spaceID, appID, ipAddress) ==
    IF instanceID = "" \/ orgID = "" \/ spaceID = "" \/ appID = ""
    THEN [cert |-> NilCert, err |-> <<"missing identity field on given certificate">>]
    ELSE IF ParseIP(ipAddress) = NilIP
    THEN [cert |-> NilCert, err |-> <<"could not parse ip address %s", ipAddress>>]
    ELSE [cert |-> [InstanceID |-> instanceID, OrgID |-> orgID, SpaceID |-> spaceID,
                    AppID |-> appID, IPAddress |-> ParseIP(ipAddress)],
          err |-> NoErr]

\* models.NewPCFCertificateFromx509
NewPCFCertificateFromx509(cert) ==
    NewPCFCertificate(cert.InstanceID, cert.OrgID, cert.SpaceID, cert.AppID,
                      IPString(cert.IP))

\* a window that is open at its old edge
tooOldInclusive(signingTime, timeReceived) ==
    signingTime <= timeReceived - FiveMinutes

\* attemptLogin lines 113-120: the two comparisons of the window
tooOld(signingTime, timeReceived) ==
    LET fiveMinutesAgo == timeReceived - FiveMinutes
    IN  signingTime < fiveMinutesAgo

tooFarInFuture(signingTime, timeReceived) ==
    LET thirtySecondsFromNow == timeReceived + ThirtySeconds
    IN  signingTime > thirtySecondsFromNow

(***************************************************************************)
(* attemptLogin up to the identity: the four fields, the signing time and  *)
(* its window, the signature, the configuration and the chain, the         *)
(* identity fields.  cfg is the configuration entry read from storage.     *)
(***************************************************************************)
attemptLoginChecks(q, timeReceived, cfg) ==
    LET roleName == q.role
        signingTimeRaw == q.signing_time
        parsed == parseTime(signingTimeRaw)
        signingTime == parsed.t
        matched == SignaturesVerify(q.signature,
                       [SigningTime |-> signingTime, Role |-> roleName,
                        Certificate |-> q.certificate])
        verifyOpts == IF cfg = NilConfig THEN [roots |-> "", err |-> NoErr]
                      ELSE VerifyOpts(cfg)
        pcf == NewPCFCertificateFromx509(matched.cert)
    IN  [pcfCert |-> pcf.cert,
         checks |-> <<
                Check("role", roleName # "", <<"'role-name' is required">>),
                Check("signature", q.signature # EmptySignature,
                      <<"'signature' is required">>),
                Check("certificate", q.certificate # "", <<"'certificate' is required">>),
                Check("signing_time", signingTimeRaw # EmptyTimeString,
                      <<"'signing_time' is required">>),
                Check("parseTime", parsed.err = NoErr, parsed.err),
                Check("too_old", ~tooOld(signingTime, timeReceived),
                      <<"request is too old; signed at %s but received request at %s; raw signing time is %s",
                        signingTime, timeReceived, signingTimeRaw>>),
                Check("too_far_in_future", ~tooFarInFuture(signingTime, timeReceived),
                      <<"request is too far in the future; signed at %s but received request at %s; raw signing time is %s",
                        signingTime, timeReceived, signingTimeRaw>>),
                Check("signatures.Verify", matched.err = NoErr, matched.err),
                Check("config", cfg # NilConfig,
                      <<"no CA is configured for verifying client certificates">>),
                Check("VerifyOpts", verifyOpts.err = NoErr, verifyOpts.err),
                Check("Verify", X509Verify(matched.cert, verifyOpts) = NoErr,
                      X509Verify(matched.cert, verifyOpts)),
                Check("NewPCFCertificateFromx509", pcf.err = NoErr, pcf.err)
             >>]

\* a login that goes on without verifying the chain
attemptLoginFrontNoChain(q, timeReceived, cfg) ==
    LET c == attemptLoginChecks(q, timeReceived, cfg)
        r == RunChecks(SelectSeq(c.checks, LAMBDA k : k.name # "Verify"))
    IN  [err |-> r.err, trace |-> r.trace, pcfCert |-> c.pcfCert]

attemptLoginFront(q, timeReceived, cfg) ==
    LET c == attemptLoginChecks(q, timeReceived, cfg)
        r == RunChecks(c.checks)
    IN  [err |-> r.err, trace |-> r.trace, pcfCert |-> c.pcfCert]

(***************************************************************************)
(* validate, first part: the role's constraints and the client of the PCF  *)
(* API (no state is read).                                                 *)
(***************************************************************************)
validateChecks(cfg, role, pcfCert, reqConnRemoteAddr) ==
        (IF ~role.DisableIPMatching
         THEN <<Check("ip", matchesIPAddress(reqConnRemoteAddr, pcfCert.IPAddress),
                      <<"no matching IP address">>)>>
         ELSE <<>>)
        \o
        <<Check("instance_id", meetsBoundConstraints(pcfCert.InstanceID, role.BoundInstanceIDs),
                <<"instance ID %s doesn't match role constraints of %s",
                  pcfCert.InstanceID, role.BoundInstanceIDs>>),
          Check("app_id", meetsBoundConstraints(pcfCert.AppID, role.BoundAppIDs),
                <<"app ID %s doesn't match role constraints of %s",
                  pcfCert.AppID, role.BoundAppIDs>>),
          Check("org_id", meetsBoundConstraints(pcfCert.OrgID, role.BoundOrgIDs),
                <<"org ID %s doesn't match role constraints of %s",
                  pcfCert.OrgID, role.BoundOrgIDs>>),
          Check("space_id", meetsBoundConstraints(pcfCert.SpaceID, role.BoundSpaceIDs),
                <<"space ID %s doesn't match role constraints of %s",
                  pcfCert.SpaceID, role.BoundSpaceIDs>>),
          Check("bound_cidrs", RemoteAddrIsOk(reqConnRemoteAddr, role.BoundCIDRs),
                <<"remote address %s doesn't match role constraints of %s",
                  reqConnRemoteAddr, role.BoundCIDRs>>),
          Check("NewClient", cfg.api = "up", <<"error creating PCF API client">>)
        >>

\* the checks with the CIDR check left out when IP matching is disabled
validateConstraintsCIDRUnlessDisabled(cfg, role, pcfCert, reqConnRemoteAddr) ==
    RunChecks(SelectSeq(validateChecks(cfg, role, pcfCert, reqConnRemoteAddr),
                        LAMBDA k : ~(role.DisableIPMatching /\ k.name = "bound_cidrs")))

\* the checks with the app ID looked at before the instance ID
validateConstraintsAppFirst(cfg, role, pcfCert, reqConnRemoteAddr) ==
    LET cs == validateChecks(cfg, role, pcfCert, reqConnRemoteAddr)
        i == CHOOSE j \in 1..Len(cs) : cs[j].name = "instance_id"
    IN  RunChecks([j \in 1..Len(cs) |->
                     IF j = i THEN cs[i + 1] ELSE IF j = i + 1 THEN cs[i] ELSE cs[j]])

\* the checks with messages that leave out the role's list
validateConstraintsTerse(cfg, role, pcfCert, reqConnRemoteAddr) ==
    LET r == RunChecks(validateChecks(cfg, role, pcfCert, reqConnRemoteAddr))
    IN  [r EXCEPT !.err = IF Len(@) > 2 THEN SubSeq(@, 1, 2) ELSE @]

validateConstraints(cfg, role, pcfCert, reqConnRemoteAddr) ==
    RunChecks(validateChecks(cfg, role, pcfCert, reqConnRemoteAddr))

(***************************************************************************)
(* validate, the checks on each answer of the PCF API.                     *)
(***************************************************************************)
checkServiceInstance(serviceInstance, pcfCert) ==
    RunChecks(<<
        Check("GetServiceInstanceByGuid", serviceInstance.err = NoErr, serviceInstance.err),
        Check("serviceInstance.Guid", ~(serviceInstance.Guid # pcfCert.InstanceID),
              <<"cert instance ID %s doesn't match API's expected one of %s",
                pcfCert.InstanceID, serviceInstance.Guid>>),
        Check("serviceInstance.SpaceGuid", ~(serviceInstance.SpaceGuid # pcfCert.SpaceID),
              <<"cert space ID %s doesn't match API's expected one of %s",
                pcfCert.SpaceID, serviceInstance.SpaceGuid>>)
    >>)

\* the checks on the app without the one on its live instances
checkAppNoInstances(app, pcfCert) ==
    RunChecks(<<
        Check("AppByGuid", app.err = NoErr, app.err),
        Check("app.Guid", ~(app.Guid # pcfCert.AppID),
              <<"cert app ID %s doesn't match API's expected one of %s",
                pcfCert.AppID, app.Guid>>),
        Check("app.SpaceGuid", ~(app.SpaceGuid # pcfCert.SpaceID),
              <<"cert space ID %s doesn't match API's expected one of %s",
                pcfCert.SpaceID, app.SpaceGuid>>)
    >>)

checkApp(app, pcfCert) ==
    RunChecks(<<
        Check("AppByGuid", app.err = NoErr, app.err),
        Check("app.Guid", ~(app.Guid # pcfCert.AppID),
              <<"cert app ID %s doesn't match API's expected one of %s",
                pcfCert.AppID, app.Guid>>),
        Check("app.SpaceGuid", ~(app.SpaceGuid # pcfCert.SpaceID),
              <<"cert space ID %s doesn't match API's expected one of %s",
                pcfCert.SpaceID, app.SpaceGuid>>),
        Check("app.Instances", ~(app.Instances <= 0),
              <<"app doesn't have any live instances">>)
    >>)

checkOrg(org, pcfCert) ==
    RunChecks(<<
        Check("GetOrgByGuid", org.err = NoErr, org.err),
        Check("org.Guid", ~(org.Guid # pcfCert.OrgID),
              <<"cert org ID %s doesn't match API's expected one of %s",
                pcfCert.OrgID, org.Guid>>)
    >>)

checkSpace(space, pcfCert) ==
    RunChecks(<<
        Check("GetSpaceByGuid", space.err = NoErr, space.err),
        Check("space.Guid", ~(space.Guid # pcfCert.SpaceID),
              <<"cert space ID %s doesn't match API's expected one of %s",
                pcfCert.SpaceID, space.Guid>>),
        Check("space.OrganizationGuid", ~(space.OrganizationGuid # pcfCert.OrgID),
              <<"cert org ID %s doesn't match API's expected one of %s",
                pcfCert.OrgID, space.OrganizationGuid>>)
    >>)

(***************************************************************************)
(* The credential                                                          *)
(***************************************************************************)
\* map lookup: the zero value for a key that is absent
MetaGet(m, k) == IF k \in DOMAIN m THEN m[k] ELSE ""

\* a credential with the display name and the alias taken from each other's field
loginAuthSwapped(roleName, role, pcfCert) ==
    [Period |-> role.Period,
     Policies |-> role.Policies,
     Metadata |-> [role |-> roleName,
                   instance_id |-> pcfCert.InstanceID,
                   org_id |-> pcfCert.OrgID,
                   app_id |-> pcfCert.AppID,
                   space_id |-> pcfCert.SpaceID,
                   ip_address |-> IPString(pcfCert.IPAddress)],
     DisplayName |-> pcfCert.AppID,
     Renewable |-> TRUE,
     TTL |-> role.TTL,
     MaxTTL |-> role.MaxTTL,
     Alias |-> [Name |-> pcfCert.InstanceID],
     BoundCIDRs |-> role.BoundCIDRs]

\* attemptLogin: "Everything checks out."
loginAuth(roleName, role, pcfCert) ==
    [Period |-> role.Period,
     Policies |-> role.Policies,
     Metadata |-> [role |-> roleName,
                   instance_id |-> pcfCert.InstanceID,
                   org_id |-> pcfCert.OrgID,
                   app_id |-> pcfCert.AppID,
                   space_id |-> pcfCert.SpaceID,
                   ip_address |-> IPString(pcfCert.IPAddress)],
     DisplayName |-> pcfCert.InstanceID,
     Renewable |-> TRUE,
     TTL |-> role.TTL,
     MaxTTL |-> role.MaxTTL,
     Alias |-> [Name |-> pcfCert.AppID],
     BoundCIDRs |-> role.BoundCIDRs]

\* a renewal that leaves the lease as issued
renewAuthKeepLease(auth, role) == auth

\* a renewal that takes the role's policies and CIDRs as well
renewAuthRefreshAll(auth, role) ==
    [auth EXCEPT !.TTL = role.TTL, !.MaxTTL = role.MaxTTL, !.Period = role.Period,
                 !.Policies = role.Policies, !.BoundCIDRs = role.BoundCIDRs]

\* pathLoginRenew: resp.Auth is req.Auth with the lease of the role
renewAuth(auth, role) ==
    [auth EXCEPT !.TTL = role.TTL, !.MaxTTL = role.MaxTTL, !.Period = role.Period]

\* what a handler returns: a response or an error (or it panics)
Returns(resp, err) == [resp |-> resp, err |-> err, panic |-> FALSE]
Panics == [resp |-> NilResp, err |-> NoErr, panic |-> TRUE]
AuthResponse(auth) == [Auth |-> auth, Error |-> NoErr]
\* logical.ErrorResponse
ErrorResponse(text) == [Auth |-> NilAuth, Error |-> text]

UUIDs == {"uuid-1", "uuid-2"}

\* a wrapper that hands the cause to the caller
operationLoginUpdateLeaky(r, u) ==
    IF r.err # NoErr
    THEN [out |-> Returns(ErrorResponse(<<"authentication failed, failure ID %s: %s", u, r.err>>), NoErr),
          log |-> <<[level |-> "error",
                     msg |-> <<"authentication failed, failure ID %s: %s", u, r.err>>]>>]
    ELSE [out |-> r, log |-> <<>>]

\* operationLoginUpdate around the result r of attemptLogin; u is the UUID
\* drawn when r is an error
operationLoginUpdate(r, u) ==
    IF r.err # NoErr
    THEN [out |-> Returns(ErrorResponse(<<"authentication failed, failure ID %s", u>>), NoErr),
          log |-> <<[level |-> "error",
                     msg |-> <<"authentication failed, failure ID %s: %s", u, r.err>>]>>]
    ELSE [out |-> r, log |-> <<>>]

\* pathLoginRenew is the framework's callback as it stands
renewCallback(r) == [out |-> r, log |-> <<>>]

(***************************************************************************)
(* Storage and the PCF API                                                 *)
(***************************************************************************)
\* getRole: the entry stored under the name, NilRole when there is none
getRole(store, roleName) ==
    IF roleName \in DOMAIN store THEN store[roleName] ELSE NilRole

\* answers of the PCF API: the record and the error of the client call
ServiceInstance(guid, spaceGuid) == [Guid |-> guid, SpaceGuid |-> spaceGuid, err |-> NoErr]
App(guid, spaceGuid, instances) ==
    [Guid |-> guid, SpaceGuid |-> spaceGuid, Instances |-> instances, err |-> NoErr]
Org(guid) == [Guid |-> guid, err |-> NoErr]
Space(guid, orgGuid) == [Guid |-> guid, OrganizationGuid |-> orgGuid, err |-> NoErr]
ServiceInstanceErr == [Guid |-> "", SpaceGuid |-> "", err |-> <<"CF-ServiceInstanceNotFound">>]
AppErr == [Guid |-> "", SpaceGuid |-> "", Instances |-> 0, err |-> <<"CF-AppNotFound">>]
OrgErr == [Guid |-> "", err |-> <<"CF-OrganizationNotFound">>]
SpaceErr == [Guid |-> "", OrganizationGuid |-> "", err |-> <<"CF-SpaceNotFound">>]
NoAnswer == [err |-> <<"not asked">>]

\* client.GetServiceInstanceByGuid, AppByGuid, GetOrgByGuid, GetSpaceByGuid
GetServiceInstanceByGuid(dir, guid) ==
    IF guid \in DOMAIN dir.svc THEN dir.svc[guid] ELSE ServiceInstanceErr
\* a client that answers for app a1 from what it was told before
AppByGuidCached(dir, guid) ==
    IF guid = "a1" THEN App("a1", "s1", 1)
    ELSE IF guid \in DOMAIN dir.app THEN dir.app[guid] ELSE AppErr

AppByGuid(dir, guid) ==
    IF guid \in DOMAIN dir.app THEN dir.app[guid] ELSE AppErr
GetOrgByGuid(dir, guid) ==
    IF guid \in DOMAIN dir.org THEN dir.org[guid] ELSE OrgErr
GetSpaceByGuid(dir, guid) ==
    IF guid \in DOMAIN dir.space THEN dir.space[guid] ELSE SpaceErr

(***************************************************************************)
(* The handlers, step by step                                              *)
(***************************************************************************)
NoOut == Returns(NilResp, NoErr)
NoLocals ==
    [timeReceived |-> ZeroTime, config |-> NilConfig, role |-> NilRole, pcfCert |-> NilCert,
     serviceInstance |-> NoAnswer, app |-> NoAnswer, org |-> NoAnswer, space |-> NoAnswer]

Start(p) == p \in procs /\ pc[p] \in {"idle", "done"}

\* The handler of kind k returns r: the login path goes through
\* operationLoginUpdate, the renewal path hands r to the framework.
Return(p, k, r) ==
    \E u \in UUIDs :
        LET o == IF k = "login" THEN operationLoginUpdate(r, u) ELSE renewCallback(r)
        IN  /\ pc' = [pc EXCEPT ![p] = "done"]
            /\ out' = [out EXCEPT ![p] = o.out]
            /\ log' = [log EXCEPT ![p] = o.log]
            /\ token' = IF o.out.resp # NilResp /\ o.out.resp.Auth # NilAuth
                        THEN o.out.resp.Auth ELSE token

\* The handler goes on to the step named next.
Goto(p, next) ==
    /\ pc' = [pc EXCEPT ![p] = next]
    /\ out' = [out EXCEPT ![p] = NoOut]
    /\ log' = [log EXCEPT ![p] = <<>>]
    /\ UNCHANGED token

\* operationLoginUpdate -> attemptLogin, lines 82-155
LoginReceive(p, q, timeReceived) ==
    /\ Start(p)
    /\ LET f == attemptLoginFront(q, timeReceived, config)
       IN  /\ kind' = [kind EXCEPT ![p] = "login"]
           /\ req' = [req EXCEPT ![p] = q]
           /\ trace' = [trace EXCEPT ![p] = f.trace]
           /\ loc' = [loc EXCEPT ![p] =
                        [NoLocals EXCEPT !.timeReceived = timeReceived,
                                         !.config = IF f.err = NoErr THEN config ELSE NilConfig,
                                         !.pcfCert = IF f.err = NoErr THEN f.pcfCert ELSE NilCert]]
           /\ IF f.err # NoErr
              THEN Return(p, "login", Returns(NilResp, f.err))
              ELSE Goto(p, "role")
    /\ UNCHANGED <<config, roles, directory, procs>>

\* a renewal that does not look at the role name before it reads the role
pathLoginRenewFrontNoRoleName(auth, cfg) ==
    RunChecks(<<
        Check("config", cfg # NilConfig,
              <<"no configuration is available for reaching the PCF API">>)
    >>)

\* a renewal that builds the CA options again
pathLoginRenewFrontVerifyOpts(auth, cfg) ==
    RunChecks(<<
        Check("config", cfg # NilConfig,
              <<"no configuration is available for reaching the PCF API">>),
        Check("VerifyOpts", cfg = NilConfig \/ VerifyOpts(cfg).err = NoErr,
              IF cfg = NilConfig THEN NoErr ELSE VerifyOpts(cfg).err),
        Check("roleName", MetaGet(auth.Metadata, "role") # "",
              <<"unable to retrieve role from metadata during renewal">>)
    >>)

\* pathLoginRenew, lines 198-209
pathLoginRenewFront(auth, cfg) ==
    RunChecks(<<
        Check("config", cfg # NilConfig,
              <<"no configuration is available for reaching the PCF API">>),
        Check("roleName", MetaGet(auth.Metadata, "role") # "",
              <<"unable to retrieve role from metadata during renewal">>)
    >>)

RenewReceive(p, auth, remoteAddr) ==
    /\ Start(p)
    /\ LET f == pathLoginRenewFront(auth, config)
       IN  /\ kind' = [kind EXCEPT ![p] = "renew"]
           /\ req' = [req EXCEPT ![p] = [Auth |-> auth, remote_addr |-> remoteAddr]]
           /\ trace' = [trace EXCEPT ![p] = f.trace]
           /\ loc' = [loc EXCEPT ![p] = [NoLocals EXCEPT !.config = config]]
           /\ IF f.err # NoErr
              THEN Return(p, "renew", Returns(NilResp, f.err))
              ELSE Goto(p, "role")
    /\ UNCHANGED <<config, roles, directory, procs>>

\* the identity validate is given: attemptLogin passes the certificate's,
\* pathLoginRenew rebuilds it from the metadata and drops the error
identityOf(k, r, l) ==
    IF k = "login" THEN l.pcfCert
    ELSE NewPCFCertificate(MetaGet(r.Auth.Metadata, "instance_id"),
                           MetaGet(r.Auth.Metadata, "org_id"),
                           MetaGet(r.Auth.Metadata, "space_id"),
                           MetaGet(r.Auth.Metadata, "app_id"),
                           MetaGet(r.Auth.Metadata, "ip_address")).cert

roleNameOf(k, r) ==
    IF k = "login" THEN r.role ELSE MetaGet(r.Auth.Metadata, "role")

\* getRole and validate up to the client of the PCF API:
\* attemptLogin lines 157-166, pathLoginRenew lines 210-226, validate lines 237-267
GetRole(p) ==
    /\ p \in procs /\ pc[p] = "role"
    /\ LET k == kind[p]
           role == getRole(roles, roleNameOf(k, req[p]))
           pcfCert == identityOf(k, req[p], loc[p])
           rebuilt == IF k = "login" THEN <<>> ELSE <<"NewPCFCertificate">>
           v == validateConstraints(loc[p].config, role, pcfCert, req[p].remote_addr)
       IN  /\ loc' = [loc EXCEPT ![p].role = role, ![p].pcfCert = pcfCert]
           /\ IF role = NilRole
              THEN /\ trace' = [trace EXCEPT ![p] = @ \o <<"getRole">>]
                   /\ Return(p, k, Returns(NilResp, <<"no matching role">>))
              ELSE IF pcfCert = NilCert
              THEN \* validate dereferences a nil certificate
                   /\ trace' = [trace EXCEPT ![p] = @ \o <<"getRole">> \o rebuilt]
                   /\ Return(p, k, Panics)
              ELSE /\ trace' = [trace EXCEPT ![p] = @ \o <<"getRole">> \o rebuilt \o v.trace]
                   /\ IF v.err # NoErr
                      THEN Return(p, k, Returns(NilResp, v.err))
                      ELSE Goto(p, "serviceInstance")
    /\ UNCHANGED <<config, roles, directory, procs, kind, req>>

\* validate lines 269-279
LookupServiceInstance(p) ==
    /\ p \in procs /\ pc[p] = "serviceInstance"
    /\ LET serviceInstance == GetServiceInstanceByGuid(directory, loc[p].pcfCert.InstanceID)
           c == checkServiceInstance(serviceInstance, loc[p].pcfCert)
       IN  /\ loc' = [loc EXCEPT ![p].serviceInstance = serviceInstance]
           /\ trace' = [trace EXCEPT ![p] = @ \o c.trace]
           /\ IF c.err # NoErr
              THEN Return(p, kind[p], Returns(NilResp, c.err))
              ELSE Goto(p, "app")
    /\ UNCHANGED <<config, roles, directory, procs, kind, req>>

\* validate lines 281-294
LookupApp(p) ==
    /\ p \in procs /\ pc[p] = "app"
    /\ LET app == AppByGuid(directory, loc[p].pcfCert.AppID)
           c == checkApp(app, loc[p].pcfCert)
       IN  /\ loc' = [loc EXCEPT ![p].app = app]
           /\ trace' = [trace EXCEPT ![p] = @ \o c.trace]
           /\ IF c.err # NoErr
              THEN Return(p, kind[p], Returns(NilResp, c.err))
              ELSE Goto(p, "org")
    /\ UNCHANGED <<config, roles, directory, procs, kind, req>>

\* validate lines 296-303
LookupOrg(p) ==
    /\ p \in procs /\ pc[p] = "org"
    /\ LET org == GetOrgByGuid(directory, loc[p].pcfCert.OrgID)
           c == checkOrg(org, loc[p].pcfCert)
       IN  /\ loc' = [loc EXCEPT ![p].org = org]
           /\ trace' = [trace EXCEPT ![p] = @ \o c.trace]
           /\ IF c.err # NoErr
              THEN Return(p, kind[p], Returns(NilResp, c.err))
              ELSE Goto(p, "space")
    /\ UNCHANGED <<config, roles, directory, procs, kind, req>>

\* a backend that keeps the credential it issued last in a field of its own
\* and renews that one
successShared(k, r, l) ==
    IF k = "login"
    THEN Returns(AuthResponse(loginAuth(r.role, l.role, l.pcfCert)), NoErr)
    ELSE Returns(AuthResponse(renewAuth(IF token # NilAuth THEN token ELSE r.Auth, l.role)),
                 NoErr)

\* a return that reads the role once more for the lease and the policies
successRereads(k, r, l) ==
    LET again == getRole(roles, roleNameOf(k, r))
        role == IF again = NilRole THEN l.role ELSE again
    IN  IF k = "login"
        THEN Returns(AuthResponse(loginAuth(r.role, role, l.pcfCert)), NoErr)
        ELSE Returns(AuthResponse(renewAuth(r.Auth, role)), NoErr)

\* what the handler returns once validate returned nil:
\* attemptLogin lines 170-194, pathLoginRenew lines 230-234
success(k, r, l) ==
    IF k = "login"
    THEN Returns(AuthResponse(loginAuth(r.role, l.role, l.pcfCert)), NoErr)
    ELSE Returns(AuthResponse(renewAuth(r.Auth, l.role)), NoErr)

(***************************************************************************)
(* The handlers as functions: what a request returns when nothing else     *)
(* runs between its steps, against one configuration, role store and       *)
(* directory.                                                              *)
(***************************************************************************)
\* validate, lines 237-317: the error it returns
validate(cfg, role, pcfCert, reqConnRemoteAddr, dir) ==
    LET v == validateConstraints(cfg, role, pcfCert, reqConnRemoteAddr)
        si == checkServiceInstance(GetServiceInstanceByGuid(dir, pcfCert.InstanceID), pcfCert)
        ap == checkApp(AppByGuid(dir, pcfCert.AppID), pcfCert)
        og == checkOrg(GetOrgByGuid(dir, pcfCert.OrgID), pcfCert)
        sp == checkSpace(GetSpaceByGuid(dir, pcfCert.SpaceID), pcfCert)
    IN  IF v.err # NoErr THEN v.err
        ELSE IF si.err # NoErr THEN si.err
        ELSE IF ap.err # NoErr THEN ap.err
        ELSE IF og.err # NoErr THEN og.err
        ELSE sp.err

\* attemptLogin, lines 82-195
attemptLogin(q, timeReceived, cfg, store, dir) ==
    LET f == attemptLoginFront(q, timeReceived, cfg)
        role == getRole(store, q.role)
    IN  IF f.err # NoErr THEN Returns(NilResp, f.err)
        ELSE IF role = NilRole THEN Returns(NilResp, <<"no matching role">>)
        ELSE IF validate(cfg, role, f.pcfCert, q.remote_addr, dir) # NoErr
        THEN Returns(NilResp, validate(cfg, role, f.pcfCert, q.remote_addr, dir))
        ELSE Returns(AuthResponse(loginAuth(q.role, role, f.pcfCert)), NoErr)

\* pathLoginRenew, lines 197-235; the error of NewPCFCertificate is not looked at
pathLoginRenew(r, cfg, store, dir) ==
    LET f == pathLoginRenewFront(r.Auth, cfg)
        role == getRole(store, MetaGet(r.Auth.Metadata, "role"))
        pcfCert == NewPCFCertificate(MetaGet(r.Auth.Metadata, "instance_id"),
                                     MetaGet(r.Auth.Metadata, "org_id"),
                                     MetaGet(r.Auth.Metadata, "space_id"),
                                     MetaGet(r.Auth.Metadata, "app_id"),
                                     MetaGet(r.Auth.Metadata, "ip_address")).cert
    IN  IF f.err # NoErr THEN Returns(NilResp, f.err)
        ELSE IF role = NilRole THEN Returns(NilResp, <<"no matching role">>)
        ELSE IF pcfCert = NilCert THEN Panics
        ELSE IF validate(cfg, role, pcfCert, r.remote_addr, dir) # NoErr
        THEN Returns(NilResp, validate(cfg, role, pcfCert, r.remote_addr, dir))
        ELSE Returns(AuthResponse(renewAuth(r.Auth, role)), NoErr)

\* validate lines 305-316, and the handler's return
LookupSpace(p) ==
    /\ p \in procs /\ pc[p] = "space"
    /\ LET space == GetSpaceByGuid(directory, loc[p].pcfCert.SpaceID)
           c == checkSpace(space, loc[p].pcfCert)
       IN  /\ loc' = [loc EXCEPT ![p].space = space]
           /\ trace' = [trace EXCEPT ![p] = @ \o c.trace]
           /\ IF c.err # NoErr
              THEN Return(p, kind[p], Returns(NilResp, c.err))
              ELSE Return(p, kind[p], success(kind[p], req[p], loc[p]))
    /\ UNCHANGED <<config, roles, directory, procs, kind, req>>

(***************************************************************************)
(* The operator's writes and the platform's changes                        *)
(***************************************************************************)
handlers == <<procs, pc, kind, req, loc, trace, out, log>>

WriteConfig(c) ==
    /\ config # c
    /\ config' = c
    /\ UNCHANGED <<roles, directory, token, handlers>>

DeleteConfig ==
    /\ config # NilConfig
    /\ config' = NilConfig
    /\ UNCHANGED <<roles, directory, token, handlers>>

WriteRole(name, role) ==
    /\ roles[name] # role
    /\ roles' = [roles EXCEPT ![name] = role]
    /\ UNCHANGED <<config, directory, token, handlers>>

DeleteRole(name) ==
    /\ roles[name] # NilRole
    /\ roles' = [roles EXCEPT ![name] = NilRole]
    /\ UNCHANGED <<config, directory, token, handlers>>

DirectoryChange(d) ==
    /\ directory # d
    /\ directory' = d
    /\ UNCHANGED <<config, roles, token, handlers>>

(***************************************************************************)
(* The values the model runs on                                            *)
(***************************************************************************)
RoleNames == {"r1"}

Addr(host, mask) == [host |-> host, mask |-> mask]

GoodConfig == [ca |-> "ca1", api |-> "up"]
BadCAConfig == [ca |-> "badpem", api |-> "up"]
NoAPIConfig == [ca |-> "ca1", api |-> "down"]

BaseRole ==
    [DisableIPMatching |-> FALSE,
     BoundInstanceIDs |-> <<>>, BoundAppIDs |-> <<>>,
     BoundOrgIDs |-> <<>>, BoundSpaceIDs |-> <<>>,
     BoundCIDRs |-> <<>>,
     TTL |-> 60, MaxTTL |-> 120, Period |-> 0,
     Policies |-> <<"default">>]

\* 10.0.0.9 and 10.0.0.4-10.0.0.5
SomeCIDRs == <<Addr("10.0.0.9", "32"), Addr("10.0.0.4", "31")>>

BaseDirectory ==
    [svc |-> [g \in {"i1", "i2"} |->
                IF g = "i1" THEN ServiceInstance("i1", "s1") ELSE ServiceInstance("i2", "s2")],
     app |-> [g \in {"a1", "a2"} |->
                IF g = "a1" THEN App("a1", "s1", 1) ELSE App("a2", "s2", 1)],
     org |-> [g \in {"o1", "o2"} |-> Org(g)],
     space |-> [g \in {"s1", "s2"} |->
                IF g = "s1" THEN Space("s1", "o1") ELSE Space("s2", "o2")]]

TimeString(layout, secs) == [layout |-> layout, secs |-> secs]

\* the signature of the certificate's key over the signing time, role and certificate
Sign(pem, secs, roleName) == [key |-> pem, secs |-> secs, role |-> roleName]

\* a request signed as the client library signs it
SignedLogin(roleName, pem, ts, remoteAddr) ==
    [role |-> roleName, certificate |-> pem, signing_time |-> ts,
     signature |-> Sign(pem, ts.secs, roleName), remote_addr |-> remoteAddr]

(***************************************************************************)
(* Spec: logins and renewals against storage and a directory that change.  *)
(***************************************************************************)
RolesMain ==
    {BaseRole,
     [BaseRole EXCEPT !.TTL = 30, !.MaxTTL = 90, !.Period = 10],
     [BaseRole EXCEPT !.Policies = <<"ops">>],
     [BaseRole EXCEPT !.BoundCIDRs = SomeCIDRs]}

DirectoriesMain ==
    {BaseDirectory,
     [BaseDirectory EXCEPT !.app["a1"] = App("a1", "s1", 0)],
     [BaseDirectory EXCEPT !.space["s1"] = Space("s1", "o2")]}

LoginsMain ==
    LET good == SignedLogin("r1", "pem-1", TimeString("iso", 1000), Addr("10.0.0.5", ""))
    IN  {good,
         SignedLogin("r1", "pem-2", TimeString("iso", 1000), Addr("10.0.0.6", "32")),
         [good EXCEPT !.remote_addr = Addr("10.0.0.6", "32")],
         SignedLogin("r1", "pem-1", TimeString("iso", 640), Addr("10.0.0.5", ""))}

ReceiveTimesMain == {1000}

\* credentials this backend did not write as they are: the metadata lacks the
\* role, or holds an address that is none
ForeignAuths ==
    LET a == loginAuth("r1", BaseRole,
                       NewPCFCertificate("i1", "o1", "s1", "a1", "10.0.0.5").cert)
    IN  {[a EXCEPT !.Metadata.role = ""],
         [a EXCEPT !.Metadata.ip_address = "not-an-ip"]}

RemoteAddrsMain == {Addr("10.0.0.5", ""), Addr("10.0.0.6", "32")}

Init ==
    /\ config = GoodConfig
    /\ roles = [n \in RoleNames |-> BaseRole]
    /\ directory = BaseDirectory
    /\ token = NilAuth
    /\ procs = {1}
    /\ pc = [p \in Procs |-> "idle"]
    /\ kind = [p \in Procs |-> "login"]
    /\ req = [p \in Procs |-> SignedLogin("", "", EmptyTimeString, Addr("", ""))]
    /\ loc = [p \in Procs |-> NoLocals]
    /\ trace = [p \in Procs |-> <<>>]
    /\ out = [p \in Procs |-> NoOut]
    /\ log = [p \in Procs |-> <<>>]

Login(p) == \E q \in LoginsMain, t \in ReceiveTimesMain : LoginReceive(p, q, t)

Renew(p) ==
    \E a \in ({token} \ {NilAuth}) \cup ForeignAuths, ra \in RemoteAddrsMain :
        RenewReceive(p, a, ra)

Validate(p) ==
    \/ GetRole(p)
    \/ LookupServiceInstance(p)
    \/ LookupApp(p)
    \/ LookupOrg(p)
    \/ LookupSpace(p)

Operator ==
    \/ WriteConfig(GoodConfig)
    \/ DeleteConfig
    \/ \E n \in RoleNames, r \in RolesMain : WriteRole(n, r)
    \/ \E n \in RoleNames : DeleteRole(n)

Platform == \E d \in DirectoriesMain : DirectoryChange(d)

Next ==
    \/ \E p \in Procs : Login(p)
    \/ \E p \in Procs : Renew(p)
    \/ \E p \in Procs : Validate(p)
    \/ Operator
    \/ Platform

Spec == Init /\ [][Next]_vars

(***************************************************************************)
(* LoginSpec: one login per behaviour, over every combination of the       *)
(* request's fields, against a storage and a directory that stay as they   *)
(* start.                                                                  *)
(***************************************************************************)
\* signing times are taken this many seconds around each edge of the window
EdgeMargin == 1

ReceiveTimesLogin == {1000, 1360}

SigningSecs ==
    {1000}
    \cup {1000 - FiveMinutes + d : d \in (-EdgeMargin)..EdgeMargin}
    \cup {1000 + ThirtySeconds + d : d \in (-EdgeMargin)..EdgeMargin}

TimeStringsLogin ==
    {EmptyTimeString, TimeString("junk", 1000), TimeString("bash", 1000)}
    \cup {TimeString("iso", t) : t \in SigningSecs}

\* the signature field: empty, the client's own, another key's, or the
\* client's own over an earlier signing time
SignaturesFor(roleName, pem, ts) ==
    {EmptySignature, Sign(pem, ts.secs, roleName), Sign("pem-2", ts.secs, roleName),
     Sign(pem, ts.secs - 360, roleName)}

LoginsLogin ==
    UNION {{[role |-> x[1], certificate |-> x[2], signing_time |-> x[3], signature |-> sg,
             remote_addr |-> Addr("10.0.0.5", "")] : sg \in SignaturesFor(x[1], x[2], x[3])} :
           x \in {"", "r1"} \X {"", "pem-1", "pem-self", "pem-noorg"} \X TimeStringsLogin}

ConfigsLogin == {NilConfig, GoodConfig, BadCAConfig, NoAPIConfig}

RolesLogin == {NilRole, BaseRole, [BaseRole EXCEPT !.BoundOrgIDs = <<"o2">>]}

DirectoriesLogin ==
    {BaseDirectory, [BaseDirectory EXCEPT !.app["a1"] = App("a1", "s1", 0)]}

InitHandlers ==
    /\ token = NilAuth
    /\ procs = {1}
    /\ pc = [p \in Procs |-> "idle"]
    /\ kind = [p \in Procs |-> "login"]
    /\ req = [p \in Procs |-> SignedLogin("", "", EmptyTimeString, Addr("", ""))]
    /\ loc = [p \in Procs |-> NoLocals]
    /\ trace = [p \in Procs |-> <<>>]
    /\ out = [p \in Procs |-> NoOut]
    /\ log = [p \in Procs |-> <<>>]

InitLogin ==
    /\ config \in ConfigsLogin
    /\ roles \in [RoleNames -> RolesLogin]
    /\ directory \in DirectoriesLogin
    /\ InitHandlers

LoginOnce(p) ==
    /\ pc[p] = "idle"
    /\ \E q \in LoginsLogin, t \in ReceiveTimesLogin : LoginReceive(p, q, t)

NextLogin ==
    \/ \E p \in Procs : LoginOnce(p)
    \/ \E p \in Procs : Validate(p)

LoginSpec == InitLogin /\ [][NextLogin]_vars

(***************************************************************************)
(* ValidateSpec: one login or renewal per behaviour that reaches validate, *)
(* over the roles, identities, remote addresses and directories that make  *)
(* each of its checks pass and fail.                                       *)
(***************************************************************************)
RolesValidate ==
    {[BaseRole EXCEPT !.DisableIPMatching = d, !.BoundInstanceIDs = bi, !.BoundAppIDs = ba,
                      !.BoundOrgIDs = bo, !.BoundSpaceIDs = bs, !.BoundCIDRs = bc] :
        d \in BOOLEAN, bi \in {<<>>, <<"i9", "i1">>}, ba \in {<<>>, <<"a9", "a1">>},
        bo \in {<<>>, <<"o9", "o1">>}, bs \in {<<>>, <<"s9", "s1">>},
        bc \in {<<>>, SomeCIDRs}}

\* the directory with one answer that is an error or another record
DirectoriesValidate ==
    {BaseDirectory}
    \cup {[BaseDirectory EXCEPT !.svc["i1"] = a] :
            a \in {ServiceInstanceErr, ServiceInstance("i2", "s1"), ServiceInstance("i1", "s2")}}
    \cup {[BaseDirectory EXCEPT !.app["a1"] = a] :
            a \in {AppErr, App("a2", "s1", 1), App("a1", "s2", 1), App("a1", "s1", 0)}}
    \cup {[BaseDirectory EXCEPT !.org["o1"] = a] : a \in {OrgErr, Org("o2")}}
    \cup {[BaseDirectory EXCEPT !.space["s1"] = a] :
            a \in {SpaceErr, Space("s2", "o1"), Space("s1", "o2")}}

PEMsValidate == {"pem-1", "pem-2", "pem-i2", "pem-a2", "pem-o2", "pem-s2", "pem-ip6"}

RemoteAddrsValidate ==
    {Addr("10.0.0.5", ""), Addr("10.0.0.5", "32"), Addr("10.0.0.6", ""), Addr("10.0.0.9", "")}

LoginsValidate ==
    {SignedLogin("r1", pem, TimeString("iso", 1000), ra) :
        pem \in PEMsValidate, ra \in RemoteAddrsValidate}

\* the credentials logins of these identities were given
AuthsValidate ==
    {loginAuth("r1", BaseRole, NewPCFCertificateFromx509(X509(pem)).cert) : pem \in PEMsValidate}

InitValidate ==
    /\ \/ /\ config = GoodConfig
          /\ roles \in [RoleNames -> RolesValidate]
          /\ directory = BaseDirectory
       \/ /\ config \in {GoodConfig, NoAPIConfig}
          /\ roles = [n \in RoleNames |-> BaseRole]
          /\ directory \in DirectoriesValidate
    /\ InitHandlers

LoginValidate(p) ==
    /\ pc[p] = "idle"
    /\ \E q \in LoginsValidate : LoginReceive(p, q, 1000)

RenewValidate(p) ==
    /\ pc[p] = "idle"
    /\ \E a \in AuthsValidate, ra \in RemoteAddrsValidate : RenewReceive(p, a, ra)

NextValidate ==
    \/ \E p \in Procs : LoginValidate(p)
    \/ \E p \in Procs : RenewValidate(p)
    \/ \E p \in Procs : Validate(p)

ValidateSpec == InitValidate /\ [][NextValidate]_vars

(***************************************************************************)
(* PairSpec: two logins side by side, each failing (or not) for a cause of *)
(* its own, so that what two callers are told can be compared.             *)
(***************************************************************************)
LoginsPair ==
    LET ts == TimeString("iso", 1000)
        good == SignedLogin("r1", "pem-1", ts, Addr("10.0.0.5", ""))
    IN  {good,
         [good EXCEPT !.certificate = ""],
         SignedLogin("r1", "pem-1", TimeString("junk", 1000), Addr("10.0.0.5", "")),
         SignedLogin("r1", "pem-1", TimeString("iso", 640), Addr("10.0.0.5", "")),
         [good EXCEPT !.signature = Sign("pem-2", 1000, "r1")],
         SignedLogin("r1", "pem-self", ts, Addr("10.0.0.5", "")),
         SignedLogin("r2", "pem-1", ts, Addr("10.0.0.5", "")),
         SignedLogin("r1", "pem-2", ts, Addr("10.0.0.6", "")),
         SignedLogin("r1", "pem-1", ts, Addr("10.0.0.6", ""))}

InitPair ==
    /\ config \in {GoodConfig, NilConfig}
    /\ roles = [n \in RoleNames |-> [BaseRole EXCEPT !.BoundOrgIDs = <<"o1">>]]
    /\ directory \in DirectoriesLogin
    /\ token = NilAuth
    /\ procs = {1, 2}
    /\ pc = [p \in Procs |-> "idle"]
    /\ kind = [p \in Procs |-> "login"]
    /\ req = [p \in Procs |-> SignedLogin("", "", EmptyTimeString, Addr("", ""))]
    /\ loc = [p \in Procs |-> NoLocals]
    /\ trace = [p \in Procs |-> <<>>]
    /\ out = [p \in Procs |-> NoOut]
    /\ log = [p \in Procs |-> <<>>]

LoginPair(p) ==
    /\ pc[p] = "idle"
    /\ \E q \in LoginsPair : LoginReceive(p, q, 1000)

NextPair ==
    \/ \E p \in Procs : LoginPair(p)
    \/ \E p \in Procs : Validate(p)

PairSpec == InitPair /\ [][NextPair]_vars

(***************************************************************************)
(* BoundSpec: one renewal per behaviour of a credential of some app, under *)
(* a role bound to every list of app IDs up to a length, in every order    *)
(* and with repeats.                                                       *)
(***************************************************************************)
\* the longest list of bound app IDs
MaxBound == 3

AppIDsBound == {"a1", "A1", "a2"}

BoundLists == UNION {[1..k -> AppIDsBound] : k \in 0..MaxBound}

RolesBound ==
    {[BaseRole EXCEPT !.DisableIPMatching = TRUE, !.BoundAppIDs = ba] : ba \in BoundLists}

AuthsBound ==
    {loginAuth("r1", BaseRole, NewPCFCertificate("i1", "o1", "s1", a, "10.0.0.5").cert) :
        a \in AppIDsBound}

InitBound ==
    /\ config = GoodConfig
    /\ roles \in [RoleNames -> RolesBound]
    /\ directory = BaseDirectory
    /\ InitHandlers

RenewBound(p) ==
    /\ pc[p] = "idle"
    /\ \E a \in AuthsBound : RenewReceive(p, a, Addr("10.0.0.5", ""))

NextBound ==
    \/ \E p \in Procs : RenewBound(p)
    \/ \E p \in Procs : Validate(p)

BoundSpec == InitBound /\ [][NextBound]_vars

(***************************************************************************)
(* ConcurrentSpec: two handlers at once, each a login or a renewal, their  *)
(* steps interleaved in every way, against a configuration, roles and a    *)
(* directory that stay as they start.                                      *)
(***************************************************************************)
LoginsConcurrent ==
    LoginsMain \cup {SignedLogin("r2", "pem-1", TimeString("iso", 1000), Addr("10.0.0.5", ""))}

AuthsConcurrent ==
    {loginAuth("r1", BaseRole, NewPCFCertificateFromx509(X509(pem)).cert) :
        pem \in {"pem-1", "pem-2"}}
    \cup ForeignAuths

InitConcurrent ==
    /\ config \in {GoodConfig, BadCAConfig}
    /\ roles \in [RoleNames -> {BaseRole, [BaseRole EXCEPT !.BoundCIDRs = SomeCIDRs,
                                                          !.TTL = 30, !.Policies = <<"ops">>]}]
    /\ directory \in DirectoriesLogin
    /\ token = NilAuth
    /\ procs = {1, 2}
    /\ pc = [p \in Procs |-> "idle"]
    /\ kind = [p \in Procs |-> "login"]
    /\ req = [p \in Procs |-> SignedLogin("", "", EmptyTimeString, Addr("", ""))]
    /\ loc = [p \in Procs |-> NoLocals]
    /\ trace = [p \in Procs |-> <<>>]
    /\ out = [p \in Procs |-> NoOut]
    /\ log = [p \in Procs |-> <<>>]

LoginConcurrent(p) ==
    /\ pc[p] = "idle"
    /\ \E q \in LoginsConcurrent : LoginReceive(p, q, 1000)

RenewConcurrent(p) ==
    /\ pc[p] = "idle"
    /\ \E a \in AuthsConcurrent, ra \in RemoteAddrsMain : RenewReceive(p, a, ra)

NextConcurrent ==
    \/ \E p \in Procs : LoginConcurrent(p)
    \/ \E p \in Procs : RenewConcurrent(p)
    \/ \E p \in Procs : Validate(p)

ConcurrentSpec == InitConcurrent /\ [][NextConcurrent]_vars

(***************************************************************************)
(* Properties                                                              *)
(***************************************************************************)
Done(p) == p \in procs /\ pc[p] = "done"
Issued(p) == Done(p) /\ out[p].resp # NilResp /\ out[p].resp.Auth # NilAuth
Last(sq) == sq[Len(sq)]
In(v, sq) == \E i \in 1..Len(sq) : sq[i] = v
Bound(v, sq) == Len(sq) = 0 \/ In(v, sq)

\* the checks of a login that is given a credential, in the order of the code
FrontChecks ==
    <<"role", "signature", "certificate", "signing_time", "parseTime", "too_old",
      "too_far_in_future", "signatures.Verify", "config", "VerifyOpts", "Verify",
      "NewPCFCertificateFromx509">>
ConstraintChecks(disableIPMatching) ==
    (IF disableIPMatching THEN <<>> ELSE <<"ip">>)
    \o <<"instance_id", "app_id", "org_id", "space_id", "bound_cidrs">>
DirectoryChecks ==
    <<"GetServiceInstanceByGuid", "serviceInstance.Guid", "serviceInstance.SpaceGuid",
      "AppByGuid", "app.Guid", "app.SpaceGuid", "app.Instances",
      "GetOrgByGuid", "org.Guid",
      "GetSpaceByGuid", "space.Guid", "space.OrganizationGuid">>

\* the role's constraints, as the specification states them
ConstraintsMet(role, x, remoteAddr) ==
    /\ role.DisableIPMatching \/ (x.IP # NilIP /\ ParseIP(remoteAddr.host) = x.IP)
    /\ Bound(x.InstanceID, role.BoundInstanceIDs)
    /\ Bound(x.AppID, role.BoundAppIDs)
    /\ Bound(x.OrgID, role.BoundOrgIDs)
    /\ Bound(x.SpaceID, role.BoundSpaceIDs)
    /\ \/ Len(role.BoundCIDRs) = 0
       \/ \E i \in 1..Len(role.BoundCIDRs) : CIDRContains(role.BoundCIDRs[i], remoteAddr)

\* the directory's answers agree with the identity x
ServiceInstanceAgrees(a, x) ==
    a.err = NoErr /\ a.Guid = x.InstanceID /\ a.SpaceGuid = x.SpaceID
AppAgrees(a, x) ==
    a.err = NoErr /\ a.Guid = x.AppID /\ a.SpaceGuid = x.SpaceID /\ a.Instances > 0
OrgAgrees(a, x) == a.err = NoErr /\ a.Guid = x.OrgID
SpaceAgrees(a, x) ==
    a.err = NoErr /\ a.Guid = x.SpaceID /\ a.OrganizationGuid = x.OrgID

\* C1: a login is given a credential only if, for that request, the four
\* fields were non-empty, the signing time parsed and lay in the window, the
\* signature matched the certificate, a configuration existed and the
\* certificate verified against its CA, the identity was extracted, the role
\* existed, its constraints were met and every directory check passed, the
\* checks having been evaluated in this order.
C1_CredentialOnlyAfterEveryGate ==
    \A p \in Procs :
        (Issued(p) /\ kind[p] = "login") =>
            LET q == req[p]
                l == loc[p]
                x == X509(q.certificate)
                t == q.signing_time.secs
                r == l.timeReceived
            IN  /\ q.role # "" /\ q.signature # EmptySignature
                /\ q.certificate # "" /\ q.signing_time # EmptyTimeString
                /\ q.signing_time.layout \in {"iso", "bash"}
                /\ r - 300 <= t /\ t <= r + 30
                /\ q.signature = Sign(q.certificate, t, q.role)
                /\ l.config # NilConfig /\ l.config.ca # "badpem"
                /\ x.issuer = l.config.ca
                /\ x.InstanceID # "" /\ x.OrgID # "" /\ x.SpaceID # "" /\ x.AppID # ""
                /\ x.IP # NilIP
                /\ l.role # NilRole
                /\ ConstraintsMet(l.role, x, q.remote_addr)
                /\ l.config.api = "up"
                /\ ServiceInstanceAgrees(l.serviceInstance, x)
                /\ AppAgrees(l.app, x)
                /\ OrgAgrees(l.org, x)
                /\ SpaceAgrees(l.space, x)
                /\ trace[p] = FrontChecks \o <<"getRole">>
                              \o ConstraintChecks(l.role.DisableIPMatching)
                              \o <<"NewClient">> \o DirectoryChecks

C1_Witness ==
    \E p \in Procs : Issued(p) /\ kind[p] = "login" /\ token = out[p].resp.Auth

\* C3: once the signing time t parsed, the window check passes exactly when
\* r-5min <= t <= r+30s for the receive time r; an older t fails as "too old"
\* and a later t as "too far in the future", in both cases before the
\* signature is verified, whatever the signature is.
WindowChecked(p) == Done(p) /\ kind[p] = "login" /\ In("too_old", trace[p])
Cause(p) == log[p][1].msg[3]

C3_Window ==
    \A p \in Procs :
        WindowChecked(p) =>
            LET t == req[p].signing_time.secs
                r == loc[p].timeReceived
            IN  /\ (r - 300 <= t /\ t <= r + 30) <=> In("signatures.Verify", trace[p])
                /\ t < r - 300 =>
                      /\ Last(trace[p]) = "too_old"
                      /\ Cause(p)[1] = "request is too old; signed at %s but received request at %s; raw signing time is %s"
                      /\ ~Issued(p)
                /\ t > r + 30 =>
                      /\ Last(trace[p]) \in {"too_far_in_future"}
                      /\ Cause(p)[1] = "request is too far in the future; signed at %s but received request at %s; raw signing time is %s"
                      /\ ~Issued(p)

\* a request replayed six minutes after it was signed, its signature valid
C3_Witness ==
    \E p \in Procs :
        /\ WindowChecked(p)
        /\ req[p].signing_time.secs = loc[p].timeReceived - 360
        /\ req[p].signature = Sign(req[p].certificate, req[p].signing_time.secs, req[p].role)
        /\ Last(trace[p]) = "too_old"

\* C2: every failing login returns no error and the response
\* "authentication failed, failure ID <id>" and nothing else; what two
\* failing logins return differs in the identifier alone, whatever their
\* causes; the cause is in the one log entry written, under the same
\* identifier.
FailedLogin(p) == Done(p) /\ kind[p] = "login" /\ ~Issued(p)

C2_FailuresRedacted ==
    /\ \A p \in Procs :
          FailedLogin(p) =>
              /\ out[p].err = NoErr /\ ~out[p].panic
              /\ out[p].resp # NilResp
              /\ out[p].resp.Auth = NilAuth
              /\ \E u \in UUIDs :
                    /\ out[p].resp.Error = <<"authentication failed, failure ID %s", u>>
                    /\ Len(log[p]) = 1
                    /\ Len(log[p][1].msg) = 3
                    /\ log[p][1].msg[1] = "authentication failed, failure ID %s: %s"
                    /\ log[p][1].msg[2] = u
                    /\ log[p][1].msg[3] # NoErr
    /\ \A p1, p2 \in Procs :
          (FailedLogin(p1) /\ FailedLogin(p2)) =>
              out[p1] = [out[p2] EXCEPT !.resp.Error[2] = out[p1].resp.Error[2]]

\* an unknown role beside a directory mismatch
C2_Witness ==
    /\ FailedLogin(1) /\ FailedLogin(2)
    /\ Cause(1) = <<"no matching role">>
    /\ Cause(2) = <<"app doesn't have any live instances">>
    /\ out[1].resp.Error[2] # out[2].resp.Error[2]

\* C4: a renewal that succeeds returns the credential with the TTL, MaxTTL
\* and Period of the role entry it read from storage under the persisted
\* role name, which is the entry stored at that moment, whatever lease the
\* credential was issued with.
RenewedOK(p) == Issued(p) /\ kind[p] = "renew"
Lease(x) == <<x.TTL, x.MaxTTL, x.Period>>

C4_RenewalTakesStoredLease ==
    /\ [](\A p \in Procs : RenewedOK(p) => Lease(out[p].resp.Auth) = Lease(loc[p].role))
    /\ [][\A p \in Procs :
            (kind[p] = "renew" /\ pc[p] = "role" /\ pc'[p] # "role") =>
                LET n == req[p].Auth.Metadata.role
                IN  loc'[p].role = IF n \in RoleNames THEN roles[n] ELSE NilRole]_vars

\* login, then the role's lease is rewritten, then the renewal succeeds
C4_Witness ==
    \E p \in Procs :
        /\ RenewedOK(p)
        /\ Lease(out[p].resp.Auth) # Lease(req[p].Auth)
        /\ Lease(out[p].resp.Auth) = Lease(roles["r1"])
        /\ req[p].Auth.Metadata.role = "r1"

\* C5: a renewal that succeeds returns the credential it was given with
\* nothing but TTL, MaxTTL and Period changed: policies, metadata, display
\* name, alias, bound CIDRs (and the renewable flag) are those presented,
\* also when the role's policies or bound CIDRs differ from them.
C5_RenewalKeepsTheRest ==
    \A p \in Procs :
        RenewedOK(p) =>
            LET a == out[p].resp.Auth
                b == req[p].Auth
            IN  /\ DOMAIN a = DOMAIN b
                /\ \A f \in DOMAIN a \ {"TTL", "MaxTTL", "Period"} : a[f] = b[f]

C5_Witness ==
    \E p \in Procs :
        /\ RenewedOK(p)
        /\ out[p].resp.Auth.Policies # loc[p].role.Policies
        /\ out[p].resp.Auth.BoundCIDRs # loc[p].role.BoundCIDRs
        /\ Lease(out[p].resp.Auth) # Lease(req[p].Auth)

\* C6: a renewal returns an error, having evaluated no constraint check and
\* made no directory lookup, when the configuration is absent, when the
\* persisted metadata names no role, and when no role is stored under the
\* persisted name; a renewal that finds the role deleted returns
\* "no matching role", and with the configuration absent no renewal gets as
\* far as reading the role.
RenewDone(p) == Done(p) /\ kind[p] = "renew"

C6_RenewalNeedsConfigAndRole ==
    /\ [](\A p \in Procs :
            RenewDone(p) =>
                LET n == MetaGet(req[p].Auth.Metadata, "role")
                IN  /\ loc[p].config = NilConfig =>
                          /\ trace[p] = <<"config">>
                          /\ out[p] = Returns(NilResp,
                                <<"no configuration is available for reaching the PCF API">>)
                    /\ (loc[p].config # NilConfig /\ n = "") =>
                          /\ trace[p] = <<"config", "roleName">>
                          /\ out[p] = Returns(NilResp,
                                <<"unable to retrieve role from metadata during renewal">>)
                    /\ (loc[p].config # NilConfig /\ n # "" /\ loc[p].role = NilRole) =>
                          /\ trace[p] = <<"config", "roleName", "getRole">>
                          /\ out[p] = Returns(NilResp, <<"no matching role">>))
    /\ [][\A p \in Procs :
            /\ (kind[p] = "renew" /\ pc[p] = "role" /\ pc'[p] # "role"
                /\ roles[req[p].Auth.Metadata.role] = NilRole) =>
                  (pc'[p] = "done" /\ out'[p] = Returns(NilResp, <<"no matching role">>))
            /\ (config = NilConfig /\ pc[p] # "role" /\ kind'[p] = "renew") =>
                  pc'[p] # "role"]_vars

\* a login, then the role is deleted, then the renewal of that credential
C6_Witness ==
    \E p \in Procs :
        /\ RenewDone(p)
        /\ req[p].Auth = token
        /\ token.Metadata.role = "r1"
        /\ roles["r1"] = NilRole
        /\ out[p].err = <<"no matching role">>

\* C7: every renewal that does not succeed hands the caller the error it
\* failed with, and nothing is logged or redacted on the way.
C7_RenewalFailuresReturned ==
    \A p \in Procs :
        (RenewDone(p) /\ ~Issued(p)) =>
            /\ ~out[p].panic
            /\ out[p].err # NoErr
            /\ out[p].err[1] # "authentication failed, failure ID %s"
            /\ out[p].resp = NilResp
            /\ log[p] = <<>>

\* what the handler failed with: in the log on the login path, returned on
\* the renewal path
ReportedCause(p) == IF kind[p] = "login" THEN Cause(p) ELSE out[p].err
Rejected(p) ==
    /\ Done(p) /\ ~Issued(p) /\ ~out[p].panic
    /\ IF kind[p] = "login" THEN Len(log[p]) = 1 ELSE out[p].err # NoErr

\* validate ran its constraint checks for the handler
Validated(p) ==
    /\ Done(p) /\ In("getRole", trace[p])
    /\ loc[p].role # NilRole /\ loc[p].pcfCert # NilCert

InSomeCIDR(remoteAddr, cidrs) ==
    \E i \in 1..Len(cidrs) : CIDRContains(cidrs[i], remoteAddr)

\* the constraint the name stands for does not hold of the request
Violated(name, role, x, remoteAddr) ==
    CASE name = "ip" -> ParseIP(remoteAddr.host) # x.IPAddress
      [] name = "instance_id" -> ~Bound(x.InstanceID, role.BoundInstanceIDs)
      [] name = "app_id" -> ~Bound(x.AppID, role.BoundAppIDs)
      [] name = "org_id" -> ~Bound(x.OrgID, role.BoundOrgIDs)
      [] name = "space_id" -> ~Bound(x.SpaceID, role.BoundSpaceIDs)
      [] name = "bound_cidrs" ->
            Len(role.BoundCIDRs) > 0 /\ ~InSomeCIDR(remoteAddr, role.BoundCIDRs)

\* C8: on login and on renewal, a request from a remote address in none of
\* the CIDRs of a non-empty bound CIDR list is rejected by validate before
\* any directory lookup, with IP matching disabled as with it enabled, and
\* by the CIDR check itself when no other constraint is violated; with an
\* empty list the CIDR check never is the one that fails.
C8_CIDRCheckedRegardless ==
    \A p \in Procs :
        Validated(p) =>
            LET role == loc[p].role
                x == loc[p].pcfCert
                ra == req[p].remote_addr
                others == {n \in {"instance_id", "app_id", "org_id", "space_id"}
                                 \cup (IF role.DisableIPMatching THEN {} ELSE {"ip"}) :
                             Violated(n, role, x, ra)}
            IN  /\ (Len(role.BoundCIDRs) > 0 /\ ~InSomeCIDR(ra, role.BoundCIDRs)) =>
                      /\ Rejected(p)
                      /\ ~In("GetServiceInstanceByGuid", trace[p])
                      /\ others = {} =>
                            /\ Last(trace[p]) = "bound_cidrs"
                            /\ ReportedCause(p) =
                                 <<"remote address %s doesn't match role constraints of %s",
                                   ra, role.BoundCIDRs>>
                /\ Len(role.BoundCIDRs) = 0 => Last(trace[p]) # "bound_cidrs"

\* a renewal with IP matching disabled, from an address the certificate does
\* not hold and no CIDR contains
C8_Witness ==
    \E p \in Procs :
        /\ Validated(p) /\ kind[p] = "renew"
        /\ loc[p].role.DisableIPMatching
        /\ ParseIP(req[p].remote_addr.host) # loc[p].pcfCert.IPAddress
        /\ Last(trace[p]) = "bound_cidrs"
        /\ Rejected(p)

\* C9: the constraint checks are evaluated in the order IP (unless
\* disabled), instance ID, app ID, org ID, space ID, CIDRs up to the first
\* that is violated; that one is the failure reported, no later check is
\* evaluated and no directory lookup made.  With none violated all are
\* evaluated.
ConstraintMessage(name) ==
    CASE name = "ip" -> "no matching IP address"
      [] name = "instance_id" -> "instance ID %s doesn't match role constraints of %s"
      [] name = "app_id" -> "app ID %s doesn't match role constraints of %s"
      [] name = "org_id" -> "org ID %s doesn't match role constraints of %s"
      [] name = "space_id" -> "space ID %s doesn't match role constraints of %s"
      [] name = "bound_cidrs" -> "remote address %s doesn't match role constraints of %s"

\* what the handler evaluates before the constraint checks
BeforeConstraints(k) ==
    IF k = "login" THEN FrontChecks \o <<"getRole">>
    ELSE <<"config", "roleName", "getRole", "NewPCFCertificate">>

C9_ConstraintOrder ==
    \A p \in Procs :
        Validated(p) =>
            LET role == loc[p].role
                order == ConstraintChecks(role.DisableIPMatching)
                bad == {i \in 1..Len(order) :
                          Violated(order[i], role, loc[p].pcfCert, req[p].remote_addr)}
            IN  IF bad = {}
                THEN /\ Len(trace[p]) > Len(BeforeConstraints(kind[p])) + Len(order)
                     /\ SubSeq(trace[p], 1, Len(BeforeConstraints(kind[p])) + Len(order) + 1)
                          = BeforeConstraints(kind[p]) \o order \o <<"NewClient">>
                ELSE LET first == CHOOSE i \in bad : \A j \in bad : i <= j
                     IN  /\ trace[p] = BeforeConstraints(kind[p]) \o SubSeq(order, 1, first)
                         /\ Rejected(p)
                         /\ ReportedCause(p)[1] = ConstraintMessage(order[first])

\* the instance ID, the app ID and others are violated; the instance ID is reported
C9_Witness ==
    \E p \in Procs :
        /\ Validated(p)
        /\ Violated("instance_id", loc[p].role, loc[p].pcfCert, req[p].remote_addr)
        /\ Violated("app_id", loc[p].role, loc[p].pcfCert, req[p].remote_addr)
        /\ Violated("bound_cidrs", loc[p].role, loc[p].pcfCert, req[p].remote_addr)
        /\ Last(trace[p]) = "instance_id"

\* C10: the lookups are made in the order service instance, app, org,
\* space, each at most once; one is made only when the answer to the one
\* before it passed every check; an answer that is an error or fails a check
\* ends the request in failure with no further lookup.
LookupNames == <<"GetServiceInstanceByGuid", "AppByGuid", "GetOrgByGuid", "GetSpaceByGuid">>
Lookups(p) == SelectSeq(trace[p], LAMBDA n : In(n, LookupNames))

C10_LookupsInOrder ==
    \A p \in Procs :
        LET calls == Lookups(p)
            x == loc[p].pcfCert
            l == loc[p]
            aborted(n) == Rejected(p) /\ Last(calls) = n
        IN  /\ Len(calls) <= 4 /\ calls = SubSeq(LookupNames, 1, Len(calls))
            /\ (l.serviceInstance # NoAnswer) <=> In("GetServiceInstanceByGuid", calls)
            /\ (l.app # NoAnswer) <=> In("AppByGuid", calls)
            /\ (l.org # NoAnswer) <=> In("GetOrgByGuid", calls)
            /\ (l.space # NoAnswer) <=> In("GetSpaceByGuid", calls)
            /\ In("AppByGuid", calls) => ServiceInstanceAgrees(l.serviceInstance, x)
            /\ In("GetOrgByGuid", calls) => AppAgrees(l.app, x)
            /\ In("GetSpaceByGuid", calls) => OrgAgrees(l.org, x)
            /\ Issued(p) => (Len(calls) = 4 /\ SpaceAgrees(l.space, x))
            /\ (l.serviceInstance # NoAnswer /\ ~ServiceInstanceAgrees(l.serviceInstance, x))
                  => aborted("GetServiceInstanceByGuid")
            /\ (l.app # NoAnswer /\ ~AppAgrees(l.app, x)) => aborted("AppByGuid")
            /\ (l.org # NoAnswer /\ ~OrgAgrees(l.org, x)) => aborted("GetOrgByGuid")
            /\ (l.space # NoAnswer /\ ~SpaceAgrees(l.space, x)) => aborted("GetSpaceByGuid")

\* the app has no live instance: the request ends after the second lookup
C10_Witness ==
    \E p \in Procs :
        /\ Rejected(p)
        /\ loc[p].app = App("a1", "s1", 0)
        /\ Lookups(p) = <<"GetServiceInstanceByGuid", "AppByGuid">>
        /\ ReportedCause(p) = <<"app doesn't have any live instances">>

\* the directory's records as they are now, without going through the client
NowServiceInstance(g) == IF g \in DOMAIN directory.svc THEN directory.svc[g] ELSE ServiceInstanceErr
NowApp(g) == IF g \in DOMAIN directory.app THEN directory.app[g] ELSE AppErr
NowOrg(g) == IF g \in DOMAIN directory.org THEN directory.org[g] ELSE OrgErr
NowSpace(g) == IF g \in DOMAIN directory.space THEN directory.space[g] ELSE SpaceErr

\* C11: nothing of the directory is kept from one request to the next.  A
\* login or renewal that is given a credential made all four lookups in that
\* request, and each step of it went past a lookup only when the directory,
\* as it was at that step, agreed with the identity; so once a record is
\* deleted, reassigned or the app has no instance, no login and no renewal
\* of that identity gets past the lookup of that record, whatever was
\* answered to earlier requests.
C11_NoCaching ==
    /\ [](\A p \in Procs :
            Issued(p) =>
                /\ Lookups(p) = LookupNames
                /\ ServiceInstanceAgrees(loc[p].serviceInstance, loc[p].pcfCert)
                /\ AppAgrees(loc[p].app, loc[p].pcfCert)
                /\ OrgAgrees(loc[p].org, loc[p].pcfCert)
                /\ SpaceAgrees(loc[p].space, loc[p].pcfCert))
    /\ [][\A p \in Procs :
            LET x == loc[p].pcfCert
            IN  /\ (pc[p] = "serviceInstance" /\ pc'[p] # pc[p]) =>
                      /\ loc'[p].serviceInstance = NowServiceInstance(x.InstanceID)
                      /\ pc'[p] = "app" <=> ServiceInstanceAgrees(NowServiceInstance(x.InstanceID), x)
                /\ (pc[p] = "app" /\ pc'[p] # pc[p]) =>
                      /\ loc'[p].app = NowApp(x.AppID)
                      /\ pc'[p] = "org" <=> AppAgrees(NowApp(x.AppID), x)
                /\ (pc[p] = "org" /\ pc'[p] # pc[p]) =>
                      /\ loc'[p].org = NowOrg(x.OrgID)
                      /\ pc'[p] = "space" <=> OrgAgrees(NowOrg(x.OrgID), x)
                /\ (pc[p] = "space" /\ pc'[p] # pc[p]) =>
                      /\ loc'[p].space = NowSpace(x.SpaceID)
                      /\ Issued(p)' <=> SpaceAgrees(NowSpace(x.SpaceID), x)
                /\ (pc[p] # "space" /\ pc'[p] # pc[p]) => ~Issued(p)'
                /\ pc'[p] \in {"idle", "role"} =>
                      /\ loc'[p].serviceInstance = NoAnswer /\ loc'[p].app = NoAnswer
                      /\ loc'[p].org = NoAnswer /\ loc'[p].space = NoAnswer
       ]_vars

\* a credential was issued, then the app lost its last instance, and the
\* renewal of that credential failed at the app lookup
C11_Witness ==
    \E p \in Procs :
        /\ Rejected(p) /\ kind[p] = "renew"
        /\ token # NilAuth /\ req[p].Auth = token
        /\ loc[p].app = App("a1", "s1", 0)
        /\ Last(trace[p]) = "app.Instances"

\* the request was rejected by the constraint check of this name
RejectedBy(p, name) ==
    Validated(p) /\ Rejected(p) /\ Last(trace[p]) = name

\* the value a constraint check looks at, and what the role (or, for the IP
\* match, the certificate) allows
Offending(name, x, remoteAddr) ==
    CASE name = "ip" -> remoteAddr
      [] name = "instance_id" -> x.InstanceID
      [] name = "app_id" -> x.AppID
      [] name = "org_id" -> x.OrgID
      [] name = "space_id" -> x.SpaceID
      [] name = "bound_cidrs" -> remoteAddr
Allowed(name, role, x) ==
    CASE name = "ip" -> x.IPAddress
      [] name = "instance_id" -> role.BoundInstanceIDs
      [] name = "app_id" -> role.BoundAppIDs
      [] name = "org_id" -> role.BoundOrgIDs
      [] name = "space_id" -> role.BoundSpaceIDs
      [] name = "bound_cidrs" -> role.BoundCIDRs

\* the message carries both the value and what is allowed, as the arguments
\* of its format
NamesBoth(msg, name, role, x, remoteAddr) ==
    /\ Len(msg) = 3
    /\ msg[2] = Offending(name, x, remoteAddr)
    /\ msg[3] = Allowed(name, role, x)

\* C12 as stated: the failure message of each of the six constraint checks,
\* the IP match included, names the offending value and what is allowed.
C12_EveryMessageNamesBoth ==
    \A p \in Procs :
        \A i \in 1..Len(ConstraintChecks(FALSE)) :
            LET name == ConstraintChecks(FALSE)[i]
            IN  RejectedBy(p, name) =>
                  NamesBoth(ReportedCause(p), name, loc[p].role, loc[p].pcfCert,
                            req[p].remote_addr)

\* C12 amended: the failure message of the instance ID, app ID, org ID,
\* space ID and CIDR checks is the check's format with the offending value
\* and the role's full list; the failure message of the IP match is the
\* fixed text "no matching IP address" and names neither address.
C12_ListMessagesNameBoth ==
    \A p \in Procs :
        \A i \in 1..Len(ConstraintChecks(FALSE)) :
            LET name == ConstraintChecks(FALSE)[i]
                role == loc[p].role
                x == loc[p].pcfCert
            IN  RejectedBy(p, name) =>
                  IF name = "ip"
                  THEN ReportedCause(p) = <<"no matching IP address">>
                  ELSE /\ ReportedCause(p)[1] = ConstraintMessage(name)
                       /\ NamesBoth(ReportedCause(p), name, role, x, req[p].remote_addr)

\* a login of app a2 under a role bound to apps a9 and a1: the log names a2
\* and the list
C12_Witness ==
    \E p \in Procs :
        /\ RejectedBy(p, "app_id") /\ kind[p] = "login"
        /\ log[p][1].msg[3] =
             <<"app ID %s doesn't match role constraints of %s", "a2", <<"a9", "a1">>>>

\* C13: the credential of a successful login has the policies, TTL, MaxTTL,
\* Period and bound CIDRs of the role the request read, is renewable, is
\* displayed under the certificate's instance ID and aliased to its app ID,
\* and its metadata has exactly the keys role, instance_id, org_id, app_id,
\* space_id and ip_address, holding the requested role name and the
\* certificate's identity, the IP as text.
C13_IssuedCredential ==
    \A p \in Procs :
        (Issued(p) /\ kind[p] = "login") =>
            LET auth == out[p].resp.Auth
                role == loc[p].role
                cert == X509(req[p].certificate)
            IN  /\ out[p].err = NoErr /\ out[p].resp.Error = NoErr
                /\ auth.Policies = role.Policies
                /\ auth.TTL = role.TTL /\ auth.MaxTTL = role.MaxTTL
                /\ auth.Period = role.Period
                /\ auth.BoundCIDRs = role.BoundCIDRs
                /\ auth.Renewable = TRUE
                /\ auth.DisplayName = cert.InstanceID
                /\ auth.Alias.Name = cert.AppID
                /\ DOMAIN auth.Metadata =
                     {"role", "instance_id", "org_id", "app_id", "space_id", "ip_address"}
                /\ auth.Metadata.role = req[p].role
                /\ auth.Metadata.instance_id = cert.InstanceID
                /\ auth.Metadata.org_id = cert.OrgID
                /\ auth.Metadata.app_id = cert.AppID
                /\ auth.Metadata.space_id = cert.SpaceID
                /\ ParseIP(auth.Metadata.ip_address) = cert.IP
                /\ auth.Metadata.ip_address \in {"10.0.0.4", "10.0.0.5", "10.0.0.6", "10.0.0.9"}

\* a login under a role with CIDRs and a lease of its own kind
C13_Witness ==
    \E p \in Procs :
        /\ Issued(p) /\ kind[p] = "login"
        /\ loc[p].role.BoundCIDRs = SomeCIDRs
        /\ out[p].resp.Auth.BoundCIDRs = SomeCIDRs
        /\ out[p].resp.Auth.DisplayName = "i1"
        /\ out[p].resp.Auth.Alias.Name = "a1"
        /\ out[p].resp.Auth.Metadata.ip_address = "10.0.0.5"

\* C14: meetsBoundConstraints(v, S) is true for every v when S is empty, and
\* for a non-empty S is true exactly when some element of S is the string v;
\* validate lets the request past the app ID check in exactly these cases.
C14_MeetsBoundConstraints ==
    \A p \in Procs :
        (p \in procs /\ In("getRole", trace[p]) /\ loc[p].role # NilRole
                     /\ loc[p].pcfCert # NilCert) =>
            LET S == loc[p].role.BoundAppIDs
                v == loc[p].pcfCert.AppID
                member == \E i \in 1..Len(S) : S[i] = v
            IN  /\ Len(S) = 0 => meetsBoundConstraints(v, S)
                /\ Len(S) > 0 => (meetsBoundConstraints(v, S) <=> member)
                /\ In("app_id", trace[p])
                /\ In("org_id", trace[p]) <=> (Len(S) = 0 \/ member)
                /\ (Len(S) > 0 /\ ~member) =>
                      /\ Rejected(p) /\ Last(trace[p]) = "app_id"
                      /\ ReportedCause(p) =
                           <<"app ID %s doesn't match role constraints of %s", v, S>>

\* the app ID is the last of three bound ones, after one that differs from
\* it in case only, and the check lets it through
C14_Witness ==
    \E p \in Procs :
        /\ p \in procs /\ In("org_id", trace[p])
        /\ loc[p].role.BoundAppIDs = <<"a2", "A1", "a1">>
        /\ loc[p].pcfCert.AppID = "a1"

\* what the request of handler p returns when it runs alone against the
\* configuration, roles and directory as they are
Alone(p) ==
    IF kind[p] = "login"
    THEN attemptLogin(req[p], loc[p].timeReceived, config, roles, directory)
    ELSE pathLoginRenew(req[p], config, roles, directory)

ProofChecks ==
    <<"signature", "certificate", "signing_time", "parseTime", "too_old", "too_far_in_future",
      "signatures.Verify", "VerifyOpts", "Verify", "NewPCFCertificateFromx509">>

\* C16: a renewal evaluates none of the checks on the signing time, the
\* signature, the certificate text or the CA options, and reads no clock;
\* its request holds the credential and the remote address only, and what
\* it returns is what it returns under any other CA in the configuration.
\* So it can be given a credential where a login signed that long ago is
\* refused.
C16_RenewalChecksNoProof ==
    \A p \in Procs :
        (p \in procs /\ kind[p] = "renew" /\ pc[p] # "idle") =>
            /\ \A i \in 1..Len(ProofChecks) : ~In(ProofChecks[i], trace[p])
            /\ loc[p].timeReceived = ZeroTime
            /\ DOMAIN req[p] = {"Auth", "remote_addr"}
            /\ (Done(p) /\ config # NilConfig) =>
                  /\ out[p] = pathLoginRenew(req[p], [config EXCEPT !.ca = "ca1"],
                                             roles, directory)
                  /\ out[p] = pathLoginRenew(req[p], [config EXCEPT !.ca = "badpem"],
                                             roles, directory)

\* under a CA that is no PEM a credential is renewed, while the login of the
\* same instance signed six minutes before it is received is refused as too old
C16_Witness ==
    /\ config = BadCAConfig
    /\ Issued(1) /\ kind[1] = "renew" /\ req[1].Auth.Metadata.instance_id = "i1"
    /\ Done(2) /\ kind[2] = "login" /\ req[2].certificate = "pem-1"
    /\ Last(trace[2]) = "too_old"
    /\ loc[2].timeReceived - req[2].signing_time.secs > FiveMinutes

\* what NewPCFCertificate answers on the metadata of the renewal of handler p
Rebuilt(p) ==
    NewPCFCertificate(MetaGet(req[p].Auth.Metadata, "instance_id"),
                      MetaGet(req[p].Auth.Metadata, "org_id"),
                      MetaGet(req[p].Auth.Metadata, "space_id"),
                      MetaGet(req[p].Auth.Metadata, "app_id"),
                      MetaGet(req[p].Auth.Metadata, "ip_address"))

\* C17: a renewal whose identity cannot be rebuilt from the metadata (a
\* field is missing, or ip_address is no address) returns an error and runs
\* neither the constraint checks nor the lookups.
C17_RebuildFailureIsReturned ==
    \A p \in Procs :
        (RenewDone(p) /\ In("NewPCFCertificate", trace[p]) /\ Rebuilt(p).err # NoErr) =>
            /\ ~out[p].panic
            /\ out[p].err # NoErr
            /\ out[p].resp = NilResp
            /\ Last(trace[p]) = "NewPCFCertificate"

\* C18: a login or renewal reads the role once.  The constraints it checked
\* and the TTL, MaxTTL and Period (on login the policies and bound CIDRs as
\* well) of the credential it returns are those of the one version it read,
\* which was the stored one at that step, whatever is written to the role
\* before and after.
C18_OneVersionOfTheRole ==
    /\ [](\A p \in Procs :
            /\ Cardinality({i \in 1..Len(trace[p]) : trace[p][i] = "getRole"}) <= 1
            /\ Issued(p) =>
                 LET role == loc[p].role
                     auth == out[p].resp.Auth
                     order == ConstraintChecks(role.DisableIPMatching)
                 IN  /\ In("getRole", trace[p])
                     /\ \A i \in 1..Len(order) :
                           ~Violated(order[i], role, loc[p].pcfCert, req[p].remote_addr)
                     /\ auth.TTL = role.TTL /\ auth.MaxTTL = role.MaxTTL
                     /\ auth.Period = role.Period
                     /\ kind[p] = "login" =>
                           /\ auth.Policies = role.Policies
                           /\ auth.BoundCIDRs = role.BoundCIDRs)
    /\ [][\A p \in Procs :
            /\ (pc[p] = "role" /\ pc'[p] # "role") =>
                  loc'[p].role = getRole(roles, roleNameOf(kind[p], req[p]))
            /\ (pc[p] \in {"serviceInstance", "app", "org", "space"}) =>
                  loc'[p].role = loc[p].role
       ]_vars

\* a login is given a credential of the version it read although the role
\* was written, with CIDRs that exclude the caller, before it returned
C18_Witness ==
    \E p \in Procs :
        /\ Issued(p) /\ kind[p] = "login"
        /\ roles["r1"] # NilRole /\ roles["r1"] # loc[p].role
        /\ roles["r1"].BoundCIDRs = SomeCIDRs
        /\ Violated("bound_cidrs", roles["r1"], loc[p].pcfCert, req[p].remote_addr)
        /\ out[p].resp.Auth.BoundCIDRs = <<>>

=============================================================================
